---- MODULE Spec2Model ----
(***************************************************************************)
(* Model of the mermaid viewer's render lifecycle (mermaid-viewer.ts) and  *)
(* of the error telemetry filter (failbot.ts).                             *)
(*                                                                         *)
(* The viewer runs on one event loop.  A handler runs to its first await   *)
(* in one step; the continuation after `await renderer.render()` is a      *)
(* second step taken when the render settles.  Several renders may be in   *)
(* flight, and they settle in any order.                                   *)
(***************************************************************************)
EXTENDS Integers, Sequences, FiniteSets, Bags, TLC

VARIABLES
  renderer,     \* the constructor's `let renderer` (mermaid-viewer.ts:32)
  reactors,     \* number of 'resize' listeners registered on window
  timer,        \* the debounce timer of the registered lazyRender
  quiet,        \* time since the last window 'resize' event, up to Wait
  burst,        \* 'resize' events of the window that is open, or closed last
  elWidth,      \* this.el.getBoundingClientRect().width
  calls,        \* every renderer.render() invocation so far
  outbox,       \* the bag of iframeMessenger.set(...) messages sent so far
  buffer,       \* window.debug's message buffer
  loads,        \* load events handled so far
  acks,         \* ready-acknowledged events handled so far
  fires,        \* debounced function invocations so far
  hostAcked,    \* load cycles whose ready message the host has acknowledged
  loadEvent,    \* the load event the load listener was handed last
  unloaded,        \* failbot.ts:76
  errorsReported,  \* failbot.ts:151
  sink,            \* POSTs made to <render-url>/_errors, by event type
  errorEvents,     \* events handed to reportErrors so far
  event,           \* the event reportErrors handled last
  verdict,         \* how reportable decided on it
  suppressed,      \* 'error' events seen while unloaded or from an extension
  stored,          \* sessionStorage's item 'navigations' (failbot.ts:202)
  navs,            \* pushNavigation calls so far
  lastNav,         \* the last pushNavigation call: its record and how storage behaved
  clock,           \* Date.now() as logMessage reads it, one tick a message
  printed,         \* calls of the Logger's _loggerFn so far
  loggerQuiet      \* the Logger's `quiet` option (failbot.ts:265)

vars == <<renderer, reactors, timer, quiet, burst, elWidth, calls, outbox, buffer, loads,
          acks, fires, hostAcked, loadEvent,
          unloaded, errorsReported, sink, errorEvents, event, verdict, suppressed,
          stored, navs, lastNav, clock, printed, loggerQuiet>>

viewerVars == <<renderer, reactors, timer, quiet, burst, elWidth, calls, outbox, buffer,
                loads, acks, fires, hostAcked, loadEvent>>

failbotVars == <<unloaded, errorsReported, sink, errorEvents, event, verdict,
                 suppressed>>

navVars == <<stored, navs, lastNav>>

loggerVars == <<clock, printed, loggerQuiet>>

\* failbot's state apart from the POSTs made.
failbotRest == <<unloaded, errorsReported, errorEvents, event, verdict, suppressed>>

---------------------------------------------------------------------------
(* Bounds of the model *)

\* Load events and resize bursts the environment produces, together.
MaxEvents == 3

\* 'resize' events within one debounce window.
MaxBurst == 2
MaxErrorEvents == 12

\* pushNavigation calls of one session.
MaxNavigations == 3

\* Messages handed to the Logger directly.
MaxMessages == 52

\* The container widths the host and the window take.
Widths == {300, 460}

---------------------------------------------------------------------------
(* Program constants *)

\* debounce(..., 200)
Wait == 200

\* errorsReported >= 10
MaxReported == 10

\* The clock advances in steps of half a debounce window.
Tick == Wait \div 2

DOCS_LINK_PATH ==
  "/get-started/writing-on-github/working-with-advanced-formatting/creating-diagrams#creating-mermaid-diagrams"

DEFAULT_DOCS_LINK_HOSTNAME == "https://docs.github.com"

STATUS_ready == "ready"
STATUS_resize == "resize"
STATUS_error == "error"

---------------------------------------------------------------------------
(* Values *)

NoRenderer == [instance |-> FALSE]

\* No load event has been dispatched yet.
NoLoadEvent == [none |-> TRUE]

\* The `detail` of a load event dispatched without one.
NullDetail == [isNull |-> TRUE]

\* The n-th load event's escaped payload, as a token sequence.
PayloadOf(n) ==
  IF n % 2 = 1 THEN <<"&lt;", "svg", "&gt;", "A">> ELSE <<"graph", "&amp;", "B">>

decodeToken(t) ==
  CASE t = "&lt;" -> "<"
    [] t = "&gt;" -> ">"
    [] t = "&amp;" -> "&"
    [] OTHER -> t

decodeHTML(s) == [i \in 1..Len(s) |-> decodeToken(s[i])]

\* What a failing render throws.
RenderError == [message |-> "Parse error"]

\* `renderer.render()` on an undefined renderer.
UndefinedRendererError ==
  [message |-> "Cannot read properties of undefined (reading 'render')"]

\* MermaidRenderer.render's result: the whole-pixel height of the diagram
\* `data` laid out at `width`.
LayoutHeight(data, width) == (Len(data) * 10000) \div width

\* iframeMessenger.set, once for each message of msgs.
RECURSIVE Send(_, _)
Send(box, msgs) ==
  IF msgs = << >> THEN box
  ELSE Send(box (+) SetToBag({Head(msgs)}), Tail(msgs))

---------------------------------------------------------------------------
(* reportError (mermaid-viewer.ts:94-103) *)

\* new URL(DOCS_LINK_PATH, getGitHubDocsHostname()).toString()
DocsUrl == <<DEFAULT_DOCS_LINK_HOSTNAME, DOCS_LINK_PATH>>

\* `${error.message} ... For more information, see ${url}`
ErrorText(error) == <<error.message, "For more information, see">> \o DocsUrl

bufferSize == 50

\* Variant: storeMessage keeps the first bufferSize messages.
storeMessageKeepsOldest(buf, msg) ==
  LET bufCopy == Append(buf, msg)
      to == IF Len(bufCopy) > bufferSize THEN bufferSize ELSE Len(bufCopy)
  IN  SubSeq(bufCopy, 1, to)

\* Logger.storeMessage: push, then keep the last bufferSize messages.
storeMessage(buf, msg) ==
  LET bufCopy == Append(buf, msg)
      from == IF Len(bufCopy) > bufferSize THEN Len(bufCopy) - bufferSize + 1 ELSE 1
  IN  SubSeq(bufCopy, from, Len(bufCopy))

\* Variant: reportError posts the caught error to the telemetry endpoint too.
reportErrorPostsForwarded(posts, error) == [posts EXCEPT !.error = @ + 1]

\* The POSTs made to <render-url>/_errors once reportError(error) has run,
\* given those made before: its last statement is window.debug(error)
\* (line 102), the logger of failbot.ts:261-292, which stores the message
\* and posts nothing; an error that was caught raises no window 'error'
\* event, so the listener of failbot.ts:238 does not run for it.
reportErrorPosts(posts, error) == posts

\* The status messages reportError sends for `error`, raised in task `by`.
reportErrorMessages(error, by) ==
  << [type |-> STATUS_error, payload |-> [error |-> ErrorText(error)], by |-> by] >>

---------------------------------------------------------------------------
(* onLoad (MermaidMarkdownViewer, mermaid-viewer.ts:187-201) *)

\* Variant: onLoad builds a new adapter for every load event.
onLoadAlwaysConstructs(ev, r) ==
  [instance |-> TRUE, data |-> decodeHTML(ev.detail.data), width |-> ev.detail.width]

\* Variant: onLoad hands the event's payload to the existing adapter too.
onLoadPassesData(ev, r) ==
  LET decoded == decodeHTML(ev.detail.data)
      width == ev.detail.width
  IN  IF ~r.instance
        THEN [instance |-> TRUE, data |-> decoded, width |-> width]
        ELSE [r EXCEPT !.width = width, !.data = decoded]

\* The renderer onLoad returns for event `ev`, given the one it is passed.
onLoad(ev, r) ==
  LET decoded == decodeHTML(ev.detail.data)
      width == ev.detail.width
  IN  IF ~r.instance
        THEN [instance |-> TRUE, data |-> decoded, width |-> width]
        ELSE [r EXCEPT !.width = width]

\* Variant: onLoad registers a reactor for every load event.
onLoadListenersEveryLoad(r) == 1

\* The 'resize' listeners onLoad adds when it is passed `r`.
onLoadListeners(r) == IF ~r.instance THEN 1 ELSE 0

---------------------------------------------------------------------------
(* onAfterLoad (mermaid-viewer.ts:66-92) *)

\* The firstLoad argument the load listener passes for the n-th load event
\* (line 35), and the one the ready-acknowledged listener passes (line 38).
\* Variant: only the first load event is a first load.
FirstLoadOnlyOnce(n) == n = 1

\* Variant: the acknowledgment pass is taken for a first load too.
AckFirstLoadTrue == TRUE

LoadFirstLoad(n) == TRUE
AckFirstLoad == FALSE

\* A render() invocation: who called it, at which adapter width, and how it
\* settled.  height is 0 until the render settles, and when it fails.
RenderCall(by, cycle, firstLoad, width) ==
  [by |-> by, cycle |-> cycle, firstLoad |-> firstLoad, width |-> width,
   status |-> "pending", height |-> 0]

\* Variant: the ready message is sent whether or not the render threw.
AfterLoadMessagesReadyOnFailure(call, ok, h) ==
  (IF call.firstLoad
     THEN << [type |-> STATUS_ready, payload |-> [height |-> h, ack |-> TRUE],
              by |-> call.by] >>
     ELSE << >>)
  \o (IF ok THEN << >> ELSE reportErrorMessages(RenderError, call.by))

\* Variant: the catch block swallows the error.
AfterLoadMessagesSilentFailure(call, ok, h) ==
  IF ok /\ call.firstLoad
    THEN << [type |-> STATUS_ready, payload |-> [height |-> h, ack |-> TRUE],
             by |-> call.by] >>
    ELSE << >>

\* What onAfterLoad sends once its render has settled.
AfterLoadMessages(call, ok, h) ==
  IF ok
    THEN IF call.firstLoad
           THEN << [type |-> STATUS_ready, payload |-> [height |-> h, ack |-> TRUE],
                    by |-> call.by] >>
           ELSE << >>
    ELSE reportErrorMessages(RenderError, call.by)

\* Variant: a failure is sticky; once a render has failed onAfterLoad
\* renders no more.
AfterLoadStartSticky(r, firstLoad, by, cycle) ==
  IF r.instance /\ \A c \in calls : c.status # "failed"
    THEN /\ calls' = calls \cup {RenderCall(by, cycle, firstLoad, r.width)}
         /\ UNCHANGED <<outbox, buffer, sink>>
    ELSE UNCHANGED <<calls, outbox, buffer, sink>>

\* Variant: render() is called outside the try block, so the TypeError of an
\* undefined renderer is not reported.
AfterLoadStartUnguarded(r, firstLoad, by, cycle) ==
  IF r.instance
    THEN /\ calls' = calls \cup {RenderCall(by, cycle, firstLoad, r.width)}
         /\ UNCHANGED <<outbox, buffer, sink>>
    ELSE UNCHANGED <<calls, outbox, buffer, sink>>

\* onAfterLoad up to its await: render() is called on the renderer; on an
\* undefined renderer the call throws inside the try and is reported.
AfterLoadStart(r, firstLoad, by, cycle) ==
  IF r.instance
    THEN /\ calls' = calls \cup {RenderCall(by, cycle, firstLoad, r.width)}
         /\ UNCHANGED <<outbox, buffer, sink>>
    ELSE /\ calls' = calls
         /\ outbox' = Send(outbox, reportErrorMessages(UndefinedRendererError, by))
         /\ buffer' = storeMessage(buffer, UndefinedRendererError)
         /\ sink' = reportErrorPosts(sink, UndefinedRendererError)

\* The acknowledgment events so far that answered no ready message.
Unsolicited == acks - Cardinality(hostAcked)

\* The load events, resize bursts and unsolicited acknowledgments so far, an
\* open burst included.
Events == loads + fires + (IF timer.armed THEN 1 ELSE 0) + Unsolicited

\* The load listener (mermaid-viewer.ts:33-36): the n-th load event carries
\* payload PayloadOf(n) and width w.
Load(w) ==
  /\ Events < MaxEvents
  /\ LET n == loads + 1
         ev == [detail |-> [isNull |-> FALSE, data |-> PayloadOf(n), width |-> w]]
         r == onLoad(ev, renderer)
     IN  /\ loads' = n
         /\ loadEvent' = ev
         /\ reactors' = reactors + onLoadListeners(renderer)
         /\ renderer' = r
         /\ AfterLoadStart(r, LoadFirstLoad(n), <<"load", n>>, n)
  /\ UNCHANGED <<timer, quiet, burst, elWidth, acks, fires, hostAcked>>
  /\ UNCHANGED <<failbotRest, navVars, loggerVars>>

\* Variant: the listener re-renders for the first acknowledgment only.
ReadyAckOnce(c) ==
  /\ acks' = acks + 1
  /\ IF acks = 0
       THEN AfterLoadStart(renderer, AckFirstLoad, <<"ack", acks + 1>>, c)
       ELSE UNCHANGED <<calls, outbox, buffer, sink>>
  /\ UNCHANGED <<renderer, reactors, timer, quiet, burst, elWidth, loads, fires,
                 loadEvent>>
  /\ UNCHANGED <<failbotRest, navVars, loggerVars>>

\* The ready-acknowledged listener (mermaid-viewer.ts:37-39), run for the
\* host's acknowledgment of load cycle c.
ReadyAck(c) ==
  /\ acks' = acks + 1
  /\ AfterLoadStart(renderer, AckFirstLoad, <<"ack", acks + 1>>, c)
  /\ UNCHANGED <<renderer, reactors, timer, quiet, burst, elWidth, loads, fires,
                 loadEvent>>
  /\ UNCHANGED <<failbotRest, navVars, loggerVars>>

\* The ready messages that ask for an acknowledgment.
AckRequests ==
  { m \in BagToSet(outbox) : m.type = STATUS_ready /\ m.payload.ack }

\* The host acknowledges a ready message it has received and not yet
\* acknowledged; the acknowledgment event reaches the controller.
HostAck ==
  \E m \in AckRequests :
    LET c == m.by[2]
    IN  /\ c \notin hostAcked
        /\ hostAcked' = hostAcked \cup {c}
        /\ ReadyAck(c)

---------------------------------------------------------------------------
(* lazyRender (mermaid-viewer.ts:44-58) *)

\* Variant: the short circuit is missing.
WidthNeverUnchanged(rendererWidth, newWidth) == FALSE

\* "The width of the element's container hasn't changed."
WidthUnchanged(rendererWidth, newWidth) == rendererWidth = newWidth

\* Variant: the resize message is sent whether or not the render failed.
LazyRenderMessagesOnFailureToo(call, ok, h) ==
  << [type |-> STATUS_resize, payload |-> [height |-> h], by |-> call.by] >>

\* What the debounced function sends once its render has settled; a failed
\* render rejects the async function and nothing catches it.
LazyRenderMessages(call, ok, h) ==
  IF ok
    THEN << [type |-> STATUS_resize, payload |-> [height |-> h], by |-> call.by] >>
    ELSE << >>

\* Variant: the debounced function is due at once.
ArmTimerNoDelay == [armed |-> TRUE, left |-> 0]

\* debounce(fn, 200) called: the trailing timer is (re)started for a full
\* window.
ArmTimer == [armed |-> TRUE, left |-> Wait]

\* A window 'resize' event: the container now measures w; every registered
\* debounced listener restarts its window.
Resize(w) ==
  /\ IF timer.armed THEN burst < MaxBurst ELSE Events < MaxEvents
  /\ burst' = IF ~timer.armed THEN (IF reactors > 0 THEN 1 ELSE 0) ELSE burst + 1
  /\ elWidth' = w
  /\ timer' = IF reactors > 0 THEN ArmTimer ELSE timer
  /\ quiet' = 0
  /\ UNCHANGED <<renderer, reactors, calls, outbox, buffer, loads, acks, fires,
                 hostAcked, loadEvent>>
  /\ UNCHANGED <<failbotVars, navVars, loggerVars>>

\* Time passes while the debounce window is open.
TimePasses ==
  /\ timer.armed
  /\ timer.left > 0
  /\ timer' = [timer EXCEPT !.left = IF @ > Tick THEN @ - Tick ELSE 0]
  /\ quiet' = IF quiet + Tick < Wait THEN quiet + Tick ELSE Wait
  /\ UNCHANGED burst
  /\ UNCHANGED <<renderer, reactors, elWidth, calls, outbox, buffer, loads, acks,
                 fires, hostAcked, loadEvent>>
  /\ UNCHANGED <<failbotVars, navVars, loggerVars>>

\* Variant: the debounced function calls render() for the new width without
\* having stored that width in the adapter.
TimerFireWidthNotStored ==
  /\ timer.armed
  /\ timer.left = 0
  /\ timer' = [armed |-> FALSE, left |-> 0]
  /\ fires' = fires + 1
  /\ LET newWidth == elWidth
         n == fires + 1
     IN  IF WidthUnchanged(renderer.width, newWidth)
           THEN UNCHANGED <<renderer, calls>>
           ELSE /\ renderer' = renderer
                /\ calls' = calls \cup {RenderCall(<<"resize", n>>, 0, FALSE, newWidth)}
  /\ UNCHANGED <<reactors, quiet, burst, elWidth, outbox, buffer, loads, acks, hostAcked,
                 loadEvent>>
  /\ UNCHANGED <<failbotVars, navVars, loggerVars>>

\* The debounce window has closed: the debounced function runs to its await.
TimerFire ==
  /\ timer.armed
  /\ timer.left = 0
  /\ timer' = [armed |-> FALSE, left |-> 0]
  /\ fires' = fires + 1
  /\ LET newWidth == elWidth
         n == fires + 1
     IN  IF WidthUnchanged(renderer.width, newWidth)
           THEN UNCHANGED <<renderer, calls>>
           ELSE /\ renderer' = [renderer EXCEPT !.width = newWidth]
                /\ calls' = calls \cup {RenderCall(<<"resize", n>>, 0, FALSE, newWidth)}
  /\ UNCHANGED <<reactors, quiet, burst, elWidth, outbox, buffer, loads, acks, hostAcked,
                 loadEvent>>
  /\ UNCHANGED <<failbotVars, navVars, loggerVars>>

---------------------------------------------------------------------------
(* MermaidRenderer.render settles *)

\* Render call c settles, with the laid-out height or with a failure, and
\* the function awaiting it resumes.
RenderSettles(c, ok) ==
  /\ c.status = "pending"
  /\ LET h == IF ok THEN LayoutHeight(renderer.data, c.width) ELSE 0
     IN  /\ calls' = (calls \ {c}) \cup
                       {[c EXCEPT !.status = IF ok THEN "ok" ELSE "failed",
                                  !.height = h]}
         /\ IF c.by[1] = "resize"
              THEN /\ outbox' = Send(outbox, LazyRenderMessages(c, ok, h))
                   /\ UNCHANGED <<buffer, sink>>
              ELSE /\ outbox' = Send(outbox, AfterLoadMessages(c, ok, h))
                   /\ buffer' = IF ok THEN buffer ELSE storeMessage(buffer, RenderError)
                   /\ sink' = IF ok THEN sink ELSE reportErrorPosts(sink, RenderError)
  /\ UNCHANGED <<renderer, reactors, timer, quiet, burst, elWidth, loads, acks, fires,
                 hostAcked, loadEvent>>
  /\ UNCHANGED <<failbotRest, navVars, loggerVars>>

RenderSucceeds == \E c \in calls : RenderSettles(c, TRUE)

RenderFails == \E c \in calls : RenderSettles(c, FALSE)

---------------------------------------------------------------------------
(* failbot.ts *)

\* Script URLs, as token sequences.
AppFile == <<"https://", "render.example", "/assets/mermaid.js">>
ExtensionFile == <<"chrome-extension://", "abcdef", "/inject.js">>

\* The events reportErrors is handed: the event's type, whether its error
\* carries a stack, its line number and its filename.
ErrorEvents ==
  [type : {"error", "submit"}, stack : BOOLEAN, lineno : {0, 12},
   filename : {AppFile, ExtensionFile}]

NoEvent == [type |-> "none", stack |-> FALSE, lineno |-> 0, filename |-> << >>]

\* filename.includes('chrome-extension://')  (failbot.ts:69-71)
isChromeExtension(filename) ==
  \E i \in 1..Len(filename) : filename[i] = "chrome-extension://"

\* Variant: the cap is not checked.
reportableVerdictNoCap(ev, un, reported) ==
  IF ~ev.stack \/ ev.lineno = 0 THEN "no-backtrace"
  ELSE IF un THEN "unloaded"
  ELSE IF isChromeExtension(ev.filename) THEN "extension"
  ELSE "reportable"

\* Variant: the unloaded flag is not checked.
reportableVerdictIgnoresUnload(ev, un, reported) ==
  IF ~ev.stack \/ ev.lineno = 0 THEN "no-backtrace"
  ELSE IF isChromeExtension(ev.filename) THEN "extension"
  ELSE IF reported >= MaxReported THEN "capped"
  ELSE "reportable"

\* The return statement reportable reaches for ev when `un` is the unloaded
\* flag and `reported` the errors counted so far (failbot.ts:153-179).
reportableVerdict(ev, un, reported) ==
  IF ~ev.stack \/ ev.lineno = 0 THEN "no-backtrace"
  ELSE IF un THEN "unloaded"
  ELSE IF isChromeExtension(ev.filename) THEN "extension"
  ELSE IF reported >= MaxReported THEN "capped"
  ELSE "reportable"

\* What reportable returns; it has counted the event exactly when it returns
\* true.
reportable(ev, un, reported) == reportableVerdict(ev, un, reported) = "reportable"

\* Whether reportErrors returns before building and posting the report
\* (failbot.ts:88-90).
skipsReport(ev, un, reported) ==
  ~reportable(ev, un, reported) /\ ev.type # "submit"

\* reportErrors(ev) (failbot.ts:86-148): what it does to failbot's state.
reportErrorsRun(ev) ==
  /\ errorEvents < MaxErrorEvents
  /\ errorEvents' = errorEvents + 1
  /\ event' = ev
  /\ verdict' = reportableVerdict(ev, unloaded, errorsReported)
  /\ errorsReported' =
       IF reportable(ev, unloaded, errorsReported)
         THEN errorsReported + 1 ELSE errorsReported
  /\ sink' = IF skipsReport(ev, unloaded, errorsReported)
               THEN sink
               ELSE [sink EXCEPT ![ev.type] = @ + 1]
  /\ suppressed' =
       IF ev.type = "error" /\ (unloaded \/ isChromeExtension(ev.filename))
         THEN suppressed + 1 ELSE suppressed
  /\ UNCHANGED unloaded

\* reportErrors handed an event that no viewer code raised.
reportErrors(ev) ==
  /\ reportErrorsRun(ev)
  /\ UNCHANGED <<viewerVars, navVars, loggerVars>>

\* window 'error' listener (failbot.ts:238)
WindowError == \E ev \in ErrorEvents : ev.type = "error" /\ reportErrors(ev)

\* reportErrors handed a 'submit' event by a caller of the exported function
ReportSubmit == \E ev \in ErrorEvents : ev.type = "submit" /\ reportErrors(ev)

\* window 'pagehide' listener: flagUnloaded (failbot.ts:78-80, 237)
flagUnloaded ==
  /\ unloaded' = TRUE
  /\ UNCHANGED <<errorsReported, sink, errorEvents, event, verdict, suppressed>>
  /\ UNCHANGED <<viewerVars, navVars, loggerVars>>

\* window 'pageshow' listener: flagLoaded (failbot.ts:82-84, 236)
flagLoaded ==
  /\ unloaded' = FALSE
  /\ UNCHANGED <<errorsReported, sink, errorEvents, event, verdict, suppressed>>
  /\ UNCHANGED <<viewerVars, navVars, loggerVars>>

---------------------------------------------------------------------------
(* The navigation log (failbot.ts:194-243) *)

\* sessionStorage.getItem's result for a key that was never set.
Absent == [present |-> FALSE]

\* A property value that JSON.stringify leaves out.
Undefined == "undefined"

\* window.location.href, and the values of window.history.state and of the
\* states that events carry (null or an object).
Urls == {"https://render.example/view", "https://render.example/view#top"}
HistoryStates == {"null", "{n:1}"}

\* How sessionStorage behaves during one pushNavigation: it works, access to
\* it throws (storage disabled), or setItem throws (quota exceeded).
StorageModes == {"ok", "blocked", "full"}

\* The record pushNavigation builds (line 198); info is the listener's
\* object, as its properties in order.
NavigationDetails(loadType, url, state, info) ==
  [type |-> loadType, url |-> url, state |-> state, info |-> info]

Defined(property) == property[2] # Undefined

\* JSON.stringify of the navigations array: properties holding undefined
\* are left out of each info object.
JSON_stringify(navigations) ==
  [text |-> [i \in 1..Len(navigations) |->
               [navigations[i] EXCEPT !.info = SelectSeq(@, Defined)]]]

\* JSON.parse of a text JSON_stringify wrote.
JSON_parse(json) == json.text

\* Variant: getNavigations never finds the stored list.
getNavigationsEmpty(item, throws) == << >>

\* getNavigations (lines 205-218), given the stored item and whether
\* sessionStorage.getItem throws.
getNavigations(item, throws) ==
  IF throws THEN << >>
  ELSE IF item.present THEN JSON_parse(item.value) ELSE << >>

\* setNavigations (lines 221-227): the stored item afterwards, given the one
\* before and whether sessionStorage.setItem throws.
setNavigations(item, navigations, throws) ==
  IF throws THEN item
  ELSE [present |-> TRUE, value |-> JSON_stringify(navigations)]

\* The stored item after pushNavigation(loadType, info) (lines 196-200).
pushNavigationStored(item, loadType, url, state, info, mode) ==
  LET navigations == getNavigations(item, mode = "blocked")
      pushed == Append(navigations, NavigationDetails(loadType, url, state, info))
  IN  setNavigations(item, pushed, mode # "ok")

\* pushNavigation(loadType, info) with the page at url and history state
\* `state`.
pushNavigation(loadType, url, state, info, mode) ==
  /\ navs < MaxNavigations
  /\ navs' = navs + 1
  /\ stored' = pushNavigationStored(stored, loadType, url, state, info, mode)
  /\ lastNav' = [record |-> NavigationDetails(loadType, url, state, info), mode |-> mode]
  /\ UNCHANGED <<viewerVars, failbotVars, loggerVars>>

\* The script is evaluated again in the same session (line 230): the page
\* was reloaded, or another page of the session loaded.
PageLoad ==
  \E url \in Urls, mode \in StorageModes :
    pushNavigation("load", url, "null", << >>, mode)

\* window 'hashchange' listener (lines 232-234)
HashChange ==
  \E oldURL \in Urls, newURL \in Urls, state \in HistoryStates, mode \in StorageModes :
    /\ oldURL # newURL
    /\ pushNavigation("hashchange", newURL, state,
                      << <<"oldURL", oldURL>>, <<"newURL", newURL>> >>, mode)

\* window 'popstate' listener (line 235)
PopState ==
  \E url \in Urls, state \in HistoryStates, mode \in StorageModes :
    pushNavigation("popstate", url, state, << <<"eventState", state>> >>, mode)

\* document 'pjax:success' listener (line 240)
PjaxSuccess ==
  \E url \in Urls, state \in HistoryStates, mode \in StorageModes :
    pushNavigation("pjax:success", url, state, << >>, mode)

\* document 'pjax:popstate' listener (lines 241-243); the event may come
\* without a direction.
PjaxPopState ==
  \E url \in Urls, state \in HistoryStates, mode \in StorageModes,
     direction \in {"back", Undefined} :
    pushNavigation("pjax:popstate", url, state,
                   << <<"pjaxDirection", direction>>, <<"pjaxState", state>> >>, mode)

\* The first page of a session has evaluated the script: pushNavigation('load')
\* (line 230) ran on an empty, working session storage.
FirstLoad ==
  NavigationDetails("load", "https://render.example/view", "null", << >>)

InitNavigations ==
  /\ stored = pushNavigationStored(Absent, "load", FirstLoad.url, FirstLoad.state,
                                   FirstLoad.info, "ok")
  /\ navs = 1
  /\ lastNav = [record |-> FirstLoad, mode |-> "ok"]

---------------------------------------------------------------------------
(* Logger (failbot.ts:247-292) *)

\* logMessage(...messageArgs) (lines 254-259) when Date.now() reads `time`.
logMessage(messageArgs, time) == [args |-> messageArgs, time |-> time]

\* What the callers of the Logger pass.
MessageArgs == <<"message">>

\* The Logger's state after storeMessage(...args), and whether the call
\* stays within the bound.
storeMessageRun(args) ==
  /\ clock < MaxMessages
  /\ clock' = clock + 1
  /\ buffer' = storeMessage(buffer, logMessage(args, clock + 1))

\* Logger.debug(...args) (lines 272-278)
debug ==
  /\ storeMessageRun(MessageArgs)
  /\ printed' = IF ~loggerQuiet THEN printed + 1 ELSE printed
  /\ UNCHANGED loggerQuiet
  /\ UNCHANGED <<renderer, reactors, timer, quiet, burst, elWidth, calls, outbox,
                 loads, acks, fires, hostAcked, loadEvent>>
  /\ UNCHANGED <<failbotVars, navVars>>

\* Logger.storeMessage(...args) called on its own (lines 286-292)
storeMessageOnly ==
  /\ storeMessageRun(MessageArgs)
  /\ UNCHANGED <<printed, loggerQuiet>>
  /\ UNCHANGED <<renderer, reactors, timer, quiet, burst, elWidth, calls, outbox,
                 loads, acks, fires, hostAcked, loadEvent>>
  /\ UNCHANGED <<failbotVars, navVars>>

\* new Logger() with its default options (line 267)
InitLogger ==
  /\ clock = 0
  /\ printed = 0
  /\ loggerQuiet = FALSE

\* new Logger({loggerFn, quiet})
InitLoggerOptions ==
  /\ clock = 0
  /\ printed = 0
  /\ loggerQuiet \in BOOLEAN

---------------------------------------------------------------------------
(* The viewer with its host *)

InitFailbot ==
  /\ unloaded = FALSE
  /\ errorsReported = 0
  /\ sink = [error |-> 0, submit |-> 0]
  /\ errorEvents = 0
  /\ event = NoEvent
  /\ verdict = "none"
  /\ suppressed = 0

InitViewer ==
  /\ renderer = NoRenderer
  /\ reactors = 0
  /\ timer = [armed |-> FALSE, left |-> 0]
  /\ quiet = 0
  /\ burst = 0
  /\ elWidth \in Widths
  /\ calls = {}
  /\ outbox = EmptyBag
  /\ buffer = << >>
  /\ loads = 0
  /\ acks = 0
  /\ fires = 0
  /\ hostAcked = {}
  /\ loadEvent = NoLoadEvent

Init == InitViewer /\ InitFailbot /\ InitNavigations /\ InitLogger

Next ==
  \/ \E w \in Widths : Load(w)
  \/ HostAck
  \/ \E w \in Widths : Resize(w)
  \/ TimePasses
  \/ TimerFire
  \/ RenderSucceeds
  \/ RenderFails

Spec == Init /\ [][Next]_vars

---------------------------------------------------------------------------
(* The telemetry filter alone *)

NextFailbot ==
  \/ WindowError
  \/ ReportSubmit
  \/ flagUnloaded
  \/ flagLoaded

SpecFailbot == Init /\ [][NextFailbot]_vars

---------------------------------------------------------------------------
(* The navigation log alone *)

NextNavigations ==
  \/ PageLoad
  \/ HashChange
  \/ PopState
  \/ PjaxSuccess
  \/ PjaxPopState

SpecNavigations == Init /\ [][NextNavigations]_vars

---------------------------------------------------------------------------
(* The Logger alone *)

InitLoggerAlone ==
  InitViewer /\ InitFailbot /\ InitNavigations /\ InitLoggerOptions

NextLogger ==
  \/ debug
  \/ storeMessageOnly

SpecLogger == InitLoggerAlone /\ [][NextLogger]_vars

---------------------------------------------------------------------------
(* The viewer on a page that reports its uncaught errors *)

\* Whether onLoad throws for ev: `event.detail.data` on a detail that is
\* null (mermaid-viewer.ts:190).
onLoadThrows(ev) == ev.detail.isNull

\* The window 'error' event the browser raises for an exception that leaves
\* a listener of the viewer uncaught.
UncaughtError ==
  [type |-> "error", stack |-> TRUE, lineno |-> 12, filename |-> AppFile]

\* Variant: the load listener catches what onLoad throws and reports it.
MalformedLoadCaught ==
  /\ Events < MaxEvents
  /\ LET ev == [detail |-> NullDetail]
     IN  /\ onLoadThrows(ev)
         /\ loads' = loads + 1
         /\ loadEvent' = ev
         /\ outbox' = Send(outbox, reportErrorMessages(UndefinedRendererError,
                                                       <<"load", loads + 1>>))
  /\ UNCHANGED <<renderer, reactors, timer, quiet, burst, elWidth, calls, buffer,
                 acks, fires, hostAcked>>
  /\ UNCHANGED <<failbotVars, navVars, loggerVars>>

\* The load listener (mermaid-viewer.ts:33-36) handed a load event without a
\* detail: onLoad throws before `renderer` is assigned and before onAfterLoad
\* is called, nothing catches the exception, and the window 'error' listener
\* of failbot.ts:238 is handed the error event.
MalformedLoad ==
  /\ Events < MaxEvents
  /\ LET ev == [detail |-> NullDetail]
     IN  /\ onLoadThrows(ev)
         /\ loads' = loads + 1
         /\ loadEvent' = ev
  /\ UNCHANGED <<renderer, reactors, timer, quiet, burst, elWidth, calls, outbox,
                 buffer, acks, fires, hostAcked>>
  /\ reportErrorsRun(UncaughtError)
  /\ UNCHANGED <<navVars, loggerVars>>

\* A ready-acknowledged event dispatched before any load event has been
\* handled: the listener of mermaid-viewer.ts:37-39 runs for it all the
\* same.  It answers no ready message, so it belongs to no load cycle.
EarlyAck ==
  /\ loads = 0
  /\ Events < MaxEvents
  /\ ReadyAck(0)
  /\ UNCHANGED hostAcked

\* The page has already reported k uncaught errors.
InitReported(k) ==
  /\ unloaded = FALSE
  /\ errorsReported = k
  /\ sink = [error |-> k, submit |-> 0]
  /\ errorEvents = k
  /\ event = IF k = 0 THEN NoEvent ELSE UncaughtError
  /\ verdict = IF k = 0 THEN "none" ELSE "reportable"
  /\ suppressed = 0

InitPage ==
  /\ InitViewer
  /\ \E k \in {0, MaxReported} : InitReported(k)
  /\ InitNavigations
  /\ InitLogger

NextPage ==
  \/ \E w \in Widths : Load(w)
  \/ MalformedLoad
  \/ HostAck
  \/ EarlyAck
  \/ \E w \in Widths : Resize(w)
  \/ TimePasses
  \/ TimerFire
  \/ RenderSucceeds
  \/ RenderFails

SpecPage == InitPage /\ [][NextPage]_vars

---------------------------------------------------------------------------
(* Vocabulary of the properties *)

\* The messages of the outbox that satisfy Test, counted with multiplicity.
MsgCount(Test(_)) ==
  LET S == { m \in BagToSet(outbox) : Test(m) }
  IN  BagCardinality([m \in S |-> outbox[m]])

IsReady(m) == m.type = STATUS_ready
IsResize(m) == m.type = STATUS_resize
IsError(m) == m.type = STATUS_error

\* The messages task `by` has sent.
SentBy(by) == { m \in BagToSet(outbox) : m.by = by }

ReadyCountBy(by) ==
  LET Test(m) == IsReady(m) /\ m.by = by IN MsgCount(Test)

ErrorCountBy(by) ==
  LET Test(m) == IsError(m) /\ m.by = by IN MsgCount(Test)

LoadCalls == { c \in calls : c.by[1] = "load" }
AckCalls == { c \in calls : c.by[1] = "ack" }
ResizeCalls == { c \in calls : c.by[1] = "resize" }

CallIds(S) == { c.by : c \in S }

\* The step is one invocation of the debounced function.
FireStep == fires' = fires + 1

---------------------------------------------------------------------------
(* Properties of the render lifecycle *)

C2_OneSilentRerenderPerAck ==
  /\ [](\A c \in hostAcked :
          Cardinality({ a \in AckCalls : a.cycle = c }) = 1)
  /\ [](\A a \in AckCalls : a.status # "failed" => SentBy(a.by) = {})
  /\ [][acks' = acks + 1 =>
          \E a \in AckCalls' :
            /\ a \notin calls
            /\ calls' = calls \cup {a}
            /\ a.width = renderer.width
            /\ renderer' = renderer
            /\ outbox' = outbox]_vars

\* An acknowledgment re-render has succeeded, at a width the reactor set
\* after the cycle's first render.
C2_Witness ==
  \E a \in AckCalls : \E c \in LoadCalls :
    /\ c.cycle = a.cycle
    /\ a.status = "ok"
    /\ a.width # c.width

---------------------------------------------------------------------------
(* Properties of the resize reactor *)

\* C5 as stated: every closed debounce window is followed by exactly one
\* re-render.
C5_Original == Cardinality(ResizeCalls) = fires

\* C5, amended: no reactor render starts while a burst lasts; the debounced
\* function runs only once Wait time units have passed since the last
\* notification, and then it starts one render at the container width of
\* that notification when the width differs from the adapter's, and none
\* when it is the same.
C5_TrailingDebounce ==
  /\ [][FireStep =>
          /\ quiet = Wait
          /\ IF renderer.width # elWidth
               THEN \E c \in ResizeCalls' :
                      /\ c \notin calls
                      /\ calls' = calls \cup {c}
                      /\ c.width = elWidth
                      /\ renderer'.width = elWidth
               ELSE calls' = calls]_vars
  /\ [][CallIds(ResizeCalls') # CallIds(ResizeCalls) => FireStep]_vars
  /\ [](Cardinality(ResizeCalls) <= fires)

\* A burst of two notifications has ended in a render at the width of the
\* last one.
C5_Witness ==
  /\ fires = 1
  /\ burst = 2
  /\ \E c \in ResizeCalls : c.width = elWidth /\ c.status = "pending"
  /\ ~timer.armed

\* C6: when the debounced function runs and the container's width equals
\* the adapter's width, no render is called, the adapter keeps its width
\* and nothing is sent; a resize message only ever comes from a reactor
\* render that was called.
C6_SameWidthNoRender ==
  /\ [][(FireStep /\ renderer.width = elWidth) =>
          /\ calls' = calls
          /\ renderer' = renderer
          /\ outbox' = outbox]_vars
  /\ [](\A m \in BagToSet(outbox) :
          IsResize(m) => \E c \in ResizeCalls : c.by = m.by)

\* Two windows in a row have closed at the adapter's width.
C6_Witness ==
  /\ fires = 2
  /\ ResizeCalls = {}
  /\ renderer.instance
  /\ renderer.width = elWidth

---------------------------------------------------------------------------
(* Properties of error handling *)

\* C7: a load whose render failed has sent exactly one message, the error
\* status message whose text is the error's message followed by the help
\* link; no ready message was sent for that cycle and the host never
\* acknowledges it.
C7_FailedLoadSendsOneError ==
  \A c \in LoadCalls :
    c.status = "failed" =>
      /\ SentBy(c.by) =
           { [type |-> STATUS_error,
              payload |-> [error |-> <<RenderError.message,
                                       "For more information, see",
                                       DEFAULT_DOCS_LINK_HOSTNAME, DOCS_LINK_PATH>>],
              by |-> c.by] }
      /\ ErrorCountBy(c.by) = 1
      /\ ReadyCountBy(c.by) = 0
      /\ c.cycle \notin hostAcked
      /\ \A a \in AckCalls : a.cycle # c.cycle

\* A load's render has failed.
C7_Witness == \E c \in LoadCalls : c.status = "failed"

\* C8 as stated: a reactor render that failed has been reported with an
\* error status message.
C8_Original ==
  \A c \in ResizeCalls : c.status = "failed" => ErrorCountBy(c.by) >= 1

---------------------------------------------------------------------------
(* Properties of the telemetry filter *)

WellFormed(ev) == ev.stack /\ ev.lineno # 0

\* The step is reportErrors handling an event of type t.
ReportStep(t) == errorEvents' = errorEvents + 1 /\ event'.type = t

C10_SuppressedNotCounted ==
  /\ [][(ReportStep("error")
          /\ (unloaded \/ isChromeExtension(event'.filename))) =>
          (sink' = sink /\ errorsReported' = errorsReported)]_vars
  /\ [][(ReportStep("error") /\ WellFormed(event') /\ ~unloaded
          /\ ~isChromeExtension(event'.filename)
          /\ errorsReported < MaxReported) =>
          /\ sink' = [sink EXCEPT !.error = @ + 1]
          /\ errorsReported' = errorsReported + 1]_vars
  /\ [](errorsReported <= sink.error + sink.submit)

\* Error events were suppressed, and the tenth report has just been
\* delivered all the same.
C10_Witness ==
  /\ suppressed >= 1
  /\ sink = [error |-> MaxReported, submit |-> 0]
  /\ verdict = "reportable"

---------------------------------------------------------------------------
(* Properties of error reporting on a page with telemetry *)

\* The load or acknowledgment render c fails in this step.
CaughtFailureStep(c) ==
  /\ c \in calls
  /\ c.status = "pending"
  /\ c.by[1] # "resize"
  /\ [c EXCEPT !.status = "failed"] \in calls'

\* The error status message reportError sends for a failed render of `by`.
RenderErrorMessage(by) ==
  [type |-> STATUS_error, payload |-> [error |-> ErrorText(RenderError)], by |-> by]

\* C11, as stated: with the telemetry cap reached, every render call that
\* has failed has still produced its error status message.
C11_Original ==
  errorsReported >= MaxReported =>
    \A c \in calls : c.status = "failed" => ErrorCountBy(c.by) = 1

---------------------------------------------------------------------------
(* Properties of repeated loads and of overlapping renders *)

\* The step handles a load event.
LoadStep == loads' = loads + 1

\* C13: a well-formed load event handled while an adapter exists leaves the
\* adapter in place with its data, builds none and registers no further
\* reactor, overwrites the adapter's width with the event's width, and
\* starts one first-load render at that width.
C13_ReloadKeepsAdapter ==
  [][(LoadStep /\ renderer.instance /\ ~onLoadThrows(loadEvent')) =>
       /\ renderer' = [renderer EXCEPT !.width = loadEvent'.detail.width]
       /\ reactors' = reactors
       /\ \E c \in calls' :
            /\ c \notin calls
            /\ calls' = calls \cup {c}
            /\ c.by = <<"load", loads'>>
            /\ c.firstLoad
            /\ c.status = "pending"
            /\ c.width = loadEvent'.detail.width]_vars

\* A second load event came with another width than the first: the adapter
\* still holds the first payload, and the second render runs at the new width.
C13_Witness ==
  /\ loads = 2
  /\ renderer.instance
  /\ renderer.data = decodeHTML(PayloadOf(1))
  /\ \E c1, c2 \in LoadCalls :
       /\ c1.by = <<"load", 1>>
       /\ c2.by = <<"load", 2>>
       /\ c1.width # c2.width
       /\ renderer.width = c2.width

\* The render calls that have not settled yet.
InFlight == { c \in calls : c.status = "pending" }

\* C14, as stated, in the case it singles out: a reactor render is never in
\* flight together with the render of a load event (so at most one render
\* call of these two kinds is in flight at any time).
C14_Original ==
  \A c \in InFlight \cap ResizeCalls : InFlight \cap LoadCalls = {}

---------------------------------------------------------------------------
(* Properties of the resize message *)

ResizeCountBy(by) ==
  LET Test(m) == IsResize(m) /\ m.by = by IN MsgCount(Test)

\* C15: every resize message was sent by a reactor render that has
\* succeeded and carries the height that render returned; a reactor render
\* has sent exactly one resize message once it has succeeded and none while
\* it is pending or when it has failed; load renders and acknowledgment
\* re-renders send none; and the reactor starts a render only at a width
\* that differs from the adapter's.
C15_ResizeOnlyAfterReactorRender ==
  /\ [](\A m \in BagToSet(outbox) :
          IsResize(m) =>
            \E c \in ResizeCalls :
              /\ c.by = m.by
              /\ c.status = "ok"
              /\ c.height = LayoutHeight(renderer.data, c.width)
              /\ m.payload = [height |-> c.height])
  /\ [](\A c \in ResizeCalls :
          ResizeCountBy(c.by) = IF c.status = "ok" THEN 1 ELSE 0)
  /\ [](\A c \in LoadCalls \cup AckCalls : ResizeCountBy(c.by) = 0)
  /\ [](MsgCount(IsResize) = Cardinality({ c \in ResizeCalls : c.status = "ok" }))
  /\ [][\A c \in ResizeCalls' \ ResizeCalls :
          c.by \notin CallIds(ResizeCalls) =>
            /\ FireStep
            /\ renderer.width # elWidth
            /\ c.width = elWidth]_vars

\* A reactor render has succeeded and sent its resize message, next to a
\* load render that succeeded and a reactor render that failed or is pending.
C15_Witness ==
  /\ \E c \in ResizeCalls : c.status = "ok" /\ ResizeCountBy(c.by) = 1
  /\ \E c \in ResizeCalls : c.status # "ok"
  /\ \E c \in LoadCalls : c.status = "ok"

---------------------------------------------------------------------------
(* Properties of the controller after a failure *)

\* Render call c fails in this step.
FailureStep(c) ==
  /\ c \in calls
  /\ c.status = "pending"
  /\ [c EXCEPT !.status = "failed"] \in calls'

\* C16: the step in which a render fails invokes no render and starts no
\* timer; a render is invoked only in a step that handles a load event, an
\* acknowledgment event or the debounced function of a resize burst; a
\* well-formed load event starts a render whatever has failed before; and
\* after a failure every load render that succeeds has still sent its one
\* ready message.
C16_NoRetryNotSticky ==
  /\ [][\A c \in calls :
          FailureStep(c) =>
            /\ CallIds(calls') = CallIds(calls)
            /\ InFlight' = InFlight \ {c}
            /\ timer' = timer]_vars
  /\ [][CallIds(calls') # CallIds(calls) =>
          LoadStep \/ acks' = acks + 1 \/ (FireStep /\ burst > 0)]_vars
  /\ [][(LoadStep /\ ~onLoadThrows(loadEvent')) =>
          \E c \in InFlight' : c \notin calls /\ c.by = <<"load", loads'>>]_vars
  /\ []((\E d \in calls : d.status = "failed") =>
          \A c \in LoadCalls : c.status = "ok" => ReadyCountBy(c.by) = 1)

\* A load render failed, and the render of a later load event has succeeded
\* and sent its ready message.
C16_Witness ==
  \E d, c \in LoadCalls :
    /\ d.status = "failed"
    /\ ErrorCountBy(d.by) = 1
    /\ c.by[2] > d.by[2]
    /\ c.status = "ok"
    /\ ReadyCountBy(c.by) = 1

---------------------------------------------------------------------------
(* Properties of malformed and early events *)

\* The load events so far for which onLoad threw: they started no render.
ThrownLoads == { n \in 1..loads : <<"load", n>> \notin CallIds(LoadCalls) }

\* C17: the step that handles a load event for which onLoad throws invokes
\* no render, sends no message, and leaves the adapter, the reactors and the
\* debug log as they were; the exception reaches the window as an 'error'
\* event; and no message is ever attributed to such a load event.
C17_MalformedLoadPropagates ==
  /\ [][(LoadStep /\ onLoadThrows(loadEvent')) =>
          /\ calls' = calls
          /\ outbox' = outbox
          /\ renderer' = renderer
          /\ reactors' = reactors
          /\ buffer' = buffer
          /\ errorEvents' = errorEvents + 1
          /\ event' = UncaughtError]_vars
  /\ [](\A n \in ThrownLoads : SentBy(<<"load", n>>) = {})

\* A load event without detail arrived after a well-formed one: one render
\* call, one adapter, and the exception was handed to the error listener.
C17_Witness ==
  /\ loads = 2
  /\ onLoadThrows(loadEvent)
  /\ renderer.instance
  /\ Cardinality(LoadCalls) = 1
  /\ ThrownLoads = {2}
  /\ event = UncaughtError

\* C19: the step that handles a ready-acknowledged event while no adapter
\* exists invokes no render, creates no adapter, and sends exactly one
\* message, the error status message for the failed access to the missing
\* adapter; nothing is posted to the telemetry endpoint; and no
\* acknowledgment event ever sends a ready message.
C19_EarlyAckReportsOnce ==
  /\ [][(acks' = acks + 1 /\ ~renderer.instance) =>
          /\ calls' = calls
          /\ renderer' = renderer
          /\ outbox' = outbox (+) SetToBag({
               [type |-> STATUS_error,
                payload |-> [error |-> ErrorText(UndefinedRendererError)],
                by |-> <<"ack", acks'>>]})
          /\ sink' = sink]_vars
  /\ [](\A n \in 1..acks : ReadyCountBy(<<"ack", n>>) = 0)

\* Two acknowledgment events were handled before any load event: no render
\* call, no ready message, one error message for each.
C19_Witness ==
  /\ loads = 0
  /\ acks = 2
  /\ calls = {}
  /\ MsgCount(IsReady) = 0
  /\ ErrorCountBy(<<"ack", 1>>) = 1
  /\ ErrorCountBy(<<"ack", 2>>) = 1

---------------------------------------------------------------------------
(* Properties of the adapter's width after a failed reactor render *)

\* The reactor render started last.
LastResizeCall ==
  CHOOSE c \in ResizeCalls : \A d \in ResizeCalls : d.by[2] <= c.by[2]

---------------------------------------------------------------------------
(* Properties of the navigation log *)

\* The records session storage holds.
StoredList == IF stored.present THEN stored.value.text ELSE << >>

\* The step is one pushNavigation call.
PushStep == navs' = navs + 1

\* C18, as stated: every pushNavigation call so far has added exactly one
\* record to the stored list.
C18_Original == Len(StoredList) = navs

\* C18: a pushNavigation call whose storage write goes through leaves every
\* stored record in place and adds exactly one record at the end, the
\* call's record less the info properties that are undefined; a call whose
\* write throws leaves the stored item as it was; so the stored list never
\* holds more records than there were calls.
C18_AppendOnly ==
  /\ [][PushStep =>
          IF lastNav'.mode = "ok"
            THEN /\ Len(StoredList') = Len(StoredList) + 1
                 /\ SubSeq(StoredList', 1, Len(StoredList)) = StoredList
                 /\ StoredList'[Len(StoredList')] =
                      [lastNav'.record EXCEPT !.info = SelectSeq(@, Defined)]
            ELSE stored' = stored]_vars
  /\ [](Len(StoredList) <= navs)

\* Three calls so far: the first page load, one whose write threw, and a
\* pjax:popstate without direction that was appended after the first record
\* with its undefined property left out.
C18_Witness ==
  /\ navs = 3
  /\ Len(StoredList) = 2
  /\ StoredList[1] = FirstLoad
  /\ lastNav.mode = "ok"
  /\ lastNav.record.type = "pjax:popstate"
  /\ StoredList[2].type = "pjax:popstate"
  /\ Len(StoredList[2].info) < Len(lastNav.record.info)

---------------------------------------------------------------------------
(* Properties of the reactor's registration *)

\* The debounce timers that are pending: each registered listener has its own.
PendingTimers == IF timer.armed THEN reactors ELSE 0

\* C21: there is one registered resize listener exactly when an adapter
\* exists and none before; the listener is registered in the step in which
\* a load event creates the adapter and in no other step; while no adapter
\* exists no resize event has started a timer, run the debounced function or
\* caused a render; and at most one debounce timer is pending.
C21_ReactorRegisteredOnce ==
  /\ [](reactors = IF renderer.instance THEN 1 ELSE 0)
  /\ [][reactors' # reactors =>
          /\ LoadStep
          /\ ~renderer.instance
          /\ renderer'.instance
          /\ reactors' = 1]_vars
  /\ [](~renderer.instance => ~timer.armed /\ fires = 0 /\ calls = {})
  /\ [](PendingTimers <= 1)

\* Two load events have been handled, one listener is registered, and a
\* resize event has started its one timer.
C21_Witness ==
  /\ loads = 2
  /\ reactors = 1
  /\ burst > 0
  /\ PendingTimers = 1
  /\ Cardinality(LoadCalls) = 2

---------------------------------------------------------------------------
(* Properties of the adapter's data *)

---------------------------------------------------------------------------
(* Properties of the Logger's buffer *)

\* The smaller of two numbers.
Min(a, b) == IF a < b THEN a ELSE b

\* C23: after any sequence of debug and storeMessage calls the buffer holds
\* as many messages as were stored, up to bufferSize, and they are the
\* messages stored last, oldest first; each call puts its message at the end.
C23_BufferKeepsLatest ==
  /\ [](Len(buffer) <= bufferSize)
  /\ [](Len(buffer) = Min(clock, bufferSize))
  /\ [](\A i \in 1..Len(buffer) :
          buffer[i] = logMessage(MessageArgs, clock - Len(buffer) + i))
  /\ [][clock' = clock + 1 =>
          /\ buffer'[Len(buffer')] = logMessage(MessageArgs, clock')
          /\ \A i \in 1..(Len(buffer') - 1) :
               buffer'[i] = buffer[i + Len(buffer) + 1 - Len(buffer')]]_vars

\* More messages were stored than the buffer holds: the buffer is full and
\* its oldest message is not the first one stored.
C23_Witness ==
  /\ clock > bufferSize + 1
  /\ Len(buffer) = bufferSize
  /\ buffer[1].time = clock - bufferSize + 1
  /\ buffer[bufferSize].time = clock
  /\ printed > 0
  /\ printed < clock

====
